---------------------------- MODULE Spec2Model ----------------------------
(***************************************************************************)
(* A model of go-module-cost (src/analyzer.go, package modulecost):        *)
(* NewAnalyzer with its options and validate, Analyzer.Analyze with        *)
(* analyzeModule and calcBytes, and versionFromModFile.                    *)
(*                                                                         *)
(* The go toolchain, the file system and the clock are the environment:    *)
(* each call into them is a nondeterministic choice among the outcomes the *)
(* code distinguishes (an error, or a value).                              *)
(*                                                                         *)
(* Strings that the code takes apart with path.Base (module paths) are     *)
(* sequences of path segments, <<"ex", "libA">> for "ex/libA", and the     *)
(* empty string is << >>.  uint64 values are four 16 bit limbs, most       *)
(* significant first, so that arithmetic keeps its 64 bit width.           *)
(***************************************************************************)
EXTENDS Integers, Sequences, FiniteSets, TLC

VARIABLES
    pc,          \* position of the program: "new", "newfailed", "ready",
                 \* "base", "mods", "done"; "resolve", "resolved" in SpecResolve
    workDir,     \* Analyzer.workDir
    modules,     \* Analyzer.modules
    goos,        \* Analyzer.goos
    goarch,      \* Analyzer.goarch
    analyzer,    \* what NewAnalyzer returned: "none" (not yet), "nil", "ok"
    newErr,      \* the error NewAnalyzer returned ("" is nil)
    gi, ai, mi,  \* loop positions of Analyze in a.goos, a.goarch, a.modules
    baseSizes,   \* the map baseSizes of Analyze: key -> uint64
    results,     \* the slice results of Analyze
    ret,         \* what Analyze returned: [results, err]
    dirs,        \* names of the directories that exist directly under workDir
    rmFailed,    \* history: some os.RemoveAll of this run failed
    builds,      \* history: every calcBytes call so far, in order
    measured,    \* history: the size the last baseline build of each
                 \* (GOOS, GOARCH) was found to have
    obs,         \* history: what the environment did for each triple measured
    resolveIn,   \* SpecResolve: the manifest and the module given
    resolveOut   \* SpecResolve: what versionFromModFile returned

vars == <<pc, workDir, modules, goos, goarch, analyzer, newErr, gi, ai, mi,
          baseSizes, results, ret, dirs, rmFailed, builds, measured,
          obs, resolveIn, resolveOut>>

cfgVars == <<workDir, modules, goos, goarch>>
runVars == <<gi, ai, mi, baseSizes, results, ret, dirs, rmFailed, builds,
            measured, obs>>
resVars == <<resolveIn, resolveOut>>

-----------------------------------------------------------------------------
(* Bounds of the model *)

MaxList == 2        \* longest a.modules, a.goos, a.goarch
MaxTriples == 4     \* most (GOOS, GOARCH, module) triples of an Analyzer
MaxReqs == 2        \* longest requirement list of a manifest in SpecResolve

\* the triples Analyze measures for these lists, once validate has put the
\* host's GOOS or GOARCH into an empty list
Triples(ms, oses, arches) ==
    (IF Len(ms) = 0 THEN 1 ELSE Len(ms))
        * (IF Len(oses) = 0 THEN 1 ELSE Len(oses))
        * (IF Len(arches) = 0 THEN 1 ELSE Len(arches))

\* the Analyzers the model goes on with
Fits(ms, oses, arches) ==
    /\ Len(ms) <= MaxList
    /\ Len(oses) <= MaxList
    /\ Len(arches) <= MaxList
    /\ Triples(ms, oses, arches) <= MaxTriples

-----------------------------------------------------------------------------
(* Strings *)

EmptyPath == << >>

\* path.Base of a non-empty slash separated path without trailing slash
Base(module) == module[Len(module)]

LibA == <<"ex", "libA">>
LibB == <<"ex", "libB">>
Other == <<"ex", "dep">>

ModuleInputs == {LibA}
GoosInputs == {"linux", "windows"}
GoarchInputs == {"amd64"}
WorkDirInputs == {"", "/tmp/go-module-cost"}

HostGOOS == "linux"
HostGOARCH == "amd64"
DefaultWorkDir == "/tmp/go-module-cost"
BaseDir == "base"
UnknownVersion == "<unknown>"

\* fmt.Sprintf("%s:%s", goos, goarch)
Key(os, arch) == os \o ":" \o arch

\* module.Version.String(): path@version
ModString(mod) ==
    SubSeq(mod.Path, 1, Len(mod.Path) - 1)
        \o << Base(mod.Path) \o "@" \o mod.Version >>

\* All sequences over S of length at most n
SeqsUpTo(S, n) == UNION { [1..k -> S] : k \in 0..n }


-----------------------------------------------------------------------------
(* uint64 *)

LimbBase == 2^16
Limbs == 1..4

Zero64 == <<0, 0, 0, 0>>

\* a < b for uint64 values: the most significant differing limb decides
Less64(a, b) ==
    \E i \in Limbs : a[i] < b[i] /\ \A j \in 1..(i - 1) : a[j] = b[j]

\* the borrow that the subtraction a - b takes from limb i
RECURSIVE BorrowFrom(_, _, _)
BorrowFrom(a, b, i) ==
    IF i = 4 THEN 0
    ELSE IF a[i + 1] - b[i + 1] - BorrowFrom(a, b, i + 1) < 0 THEN 1 ELSE 0

\* a - b clamped at zero: what the code would do if it guarded the underflow
SaturatingSub64(a, b) ==
    IF Less64(a, b) THEN Zero64
    ELSE [i \in Limbs |-> (a[i] - b[i] - BorrowFrom(a, b, i)) % LimbBase]

\* the uint64 subtraction a - b of Go: the difference modulo 2^64
Sub64(a, b) ==
    [i \in Limbs |-> (a[i] - b[i] - BorrowFrom(a, b, i)) % LimbBase]

\* sizes a binary is found to have (fi.Size() of a regular file, below 2^63)
SizeInputs == { <<0, 0, 0, 2>>, <<0, 0, 1, 0>> }

-----------------------------------------------------------------------------
(* versionFromModFile *)

Req(path, version, indirect) ==
    [Path |-> path, Version |-> version, Indirect |-> indirect]

\* what reading and parsing a go.mod gives: status "readerr", "parseerr" or
\* "ok" with the require list
Unreadable == [status |-> "readerr", Require |-> << >>]
Unparseable == [status |-> "parseerr", Require |-> << >>]
Parsed(reqs) == [status |-> "ok", Require |-> reqs]

\* the loop of versionFromModFile: the index of the first requirement the
\* condition accepts, 0 if the loop ends without returning
RECURSIVE FirstAccepted(_, _, _)
FirstAccepted(reqs, module, i) ==
    IF i > Len(reqs) THEN 0
    ELSE IF reqs[i].Path = module \/ ~reqs[i].Indirect THEN i
    ELSE FirstAccepted(reqs, module, i + 1)

\* versionFromModFile, were the sentinel case reported as an error
versionFromModFileStrict(file, module) ==
    IF file.status = "readerr"
    THEN [Path |-> module, Version |-> "", Err |-> "read go.mod"]
    ELSE IF file.status = "parseerr"
    THEN [Path |-> module, Version |-> "", Err |-> "parse go.mod"]
    ELSE LET i == FirstAccepted(file.Require, module, 1) IN
         IF i = 0
         THEN [Path |-> module, Version |-> "", Err |-> "version not found"]
         ELSE [Path |-> file.Require[i].Path,
               Version |-> file.Require[i].Version, Err |-> ""]

versionFromModFile(file, module) ==
    IF file.status = "readerr"
    THEN [Path |-> module, Version |-> "", Err |-> "read go.mod"]
    ELSE IF file.status = "parseerr"
    THEN [Path |-> module, Version |-> "", Err |-> "parse go.mod"]
    ELSE LET i == FirstAccepted(file.Require, module, 1) IN
         IF i = 0
         THEN [Path |-> module, Version |-> UnknownVersion, Err |-> ""]
         ELSE [Path |-> file.Require[i].Path,
               Version |-> file.Require[i].Version, Err |-> ""]

-----------------------------------------------------------------------------
(* NewAnalyzer: the options and validate *)

\* the loops of WithModules, WithGOOSes, WithGOARCHes: append what is not ""
RECURSIVE AppendNonEmpty(_, _, _)
AppendNonEmpty(list, items, empty) ==
    IF items = << >> THEN list
    ELSE AppendNonEmpty(
            IF items[1] # empty THEN Append(list, items[1]) ELSE list,
            Tail(items), empty)

\* the loop of WithModulesFromGoMod: append req.Mod.String() of each
RECURSIVE AppendRequired(_, _)
AppendRequired(list, reqs) ==
    IF reqs = << >> THEN list
    ELSE AppendRequired(Append(list, ModString(reqs[1])), Tail(reqs))

GoModInputs ==
    { Unreadable, Unparseable, Parsed(<< >>),
      Parsed(<< Req(LibB, "v1", FALSE) >>) }

WithWorkDir(w) ==
    /\ pc = "new"
    /\ workDir' = IF w # "" THEN w ELSE workDir
    /\ UNCHANGED <<pc, modules, goos, goarch, analyzer, newErr>>
    /\ UNCHANGED <<runVars, resVars>>

WithModule(module) ==
    /\ pc = "new"
    /\ modules' = IF module # EmptyPath THEN Append(modules, module) ELSE modules
    /\ UNCHANGED <<pc, workDir, goos, goarch, analyzer, newErr>>
    /\ UNCHANGED <<runVars, resVars>>
    /\ Fits(modules', goos', goarch')

WithModules(ms) ==
    /\ pc = "new"
    /\ modules' = AppendNonEmpty(modules, ms, EmptyPath)
    /\ UNCHANGED <<pc, workDir, goos, goarch, analyzer, newErr>>
    /\ UNCHANGED <<runVars, resVars>>
    /\ Fits(modules', goos', goarch')

\* an option that returns an error makes NewAnalyzer return nil and the error
WithModulesFromGoMod(file) ==
    /\ pc = "new"
    /\ IF file.status = "readerr"
       THEN /\ pc' = "newfailed"
            /\ analyzer' = "nil"
            /\ newErr' = "unable to read go.mod"
            /\ UNCHANGED modules
       ELSE IF file.status = "parseerr"
       THEN /\ pc' = "newfailed"
            /\ analyzer' = "nil"
            /\ newErr' = "unable to parse go.mod"
            /\ UNCHANGED modules
       ELSE /\ modules' = AppendRequired(modules, file.Require)
            /\ UNCHANGED <<pc, analyzer, newErr>>
    /\ UNCHANGED <<workDir, goos, goarch>>
    /\ UNCHANGED <<runVars, resVars>>
    /\ Fits(modules', goos', goarch')

WithGOOS(os) ==
    /\ pc = "new"
    /\ goos' = IF os # "" THEN Append(goos, os) ELSE goos
    /\ UNCHANGED <<pc, workDir, modules, goarch, analyzer, newErr>>
    /\ UNCHANGED <<runVars, resVars>>
    /\ Fits(modules', goos', goarch')

WithGOOSes(gooses) ==
    /\ pc = "new"
    /\ goos' = AppendNonEmpty(goos, gooses, "")
    /\ UNCHANGED <<pc, workDir, modules, goarch, analyzer, newErr>>
    /\ UNCHANGED <<runVars, resVars>>
    /\ Fits(modules', goos', goarch')

WithGOARCH(arch) ==
    /\ pc = "new"
    /\ goarch' = IF arch # "" THEN Append(goarch, arch) ELSE goarch
    /\ UNCHANGED <<pc, workDir, modules, goos, analyzer, newErr>>
    /\ UNCHANGED <<runVars, resVars>>
    /\ Fits(modules', goos', goarch')

WithGOARCHes(goarches) ==
    /\ pc = "new"
    /\ goarch' = AppendNonEmpty(goarch, goarches, "")
    /\ UNCHANGED <<pc, workDir, modules, goos, analyzer, newErr>>
    /\ UNCHANGED <<runVars, resVars>>
    /\ Fits(modules', goos', goarch')

\* validate without its check of a.modules
validateAnyModules(a) ==
    [err |-> "",
     a |-> [workDir |-> IF a.workDir = "" THEN DefaultWorkDir ELSE a.workDir,
            modules |-> a.modules,
            goos |-> IF Len(a.goos) = 0 THEN Append(a.goos, HostGOOS) ELSE a.goos,
            goarch |-> IF Len(a.goarch) = 0 THEN Append(a.goarch, HostGOARCH)
                       ELSE a.goarch]]

\* validate: the error it returns and the Analyzer as it leaves it
validate(a) ==
    IF Len(a.modules) = 0
    THEN [err |-> "must provide at least one module to analyze", a |-> a]
    ELSE [err |-> "",
          a |-> [workDir |-> IF a.workDir = "" THEN DefaultWorkDir ELSE a.workDir,
                 modules |-> a.modules,
                 goos |-> IF Len(a.goos) = 0 THEN Append(a.goos, HostGOOS)
                          ELSE a.goos,
                 goarch |-> IF Len(a.goarch) = 0 THEN Append(a.goarch, HostGOARCH)
                            ELSE a.goarch]]

\* the end of NewAnalyzer, once every option has been applied
NewAnalyzerReturn ==
    /\ pc = "new"
    /\ LET v == validate([workDir |-> workDir, modules |-> modules,
                          goos |-> goos, goarch |-> goarch]) IN
       IF v.err # ""
       THEN /\ pc' = "newfailed"
            /\ analyzer' = "nil"
            /\ newErr' = v.err
            /\ UNCHANGED cfgVars
       ELSE /\ pc' = "ready"
            /\ analyzer' = "ok"
            /\ newErr' = ""
            /\ workDir' = v.a.workDir
            /\ modules' = v.a.modules
            /\ goos' = v.a.goos
            /\ goarch' = v.a.goarch
    /\ UNCHANGED <<runVars, resVars>>

-----------------------------------------------------------------------------
(* calcBytes and analyzeModule *)

\* What the environment does during one calcBytes call: the error of each of
\* its three steps ("" is nil), whether buildModuleDir got as far as creating
\* the directory, and the size binBytes finds.
CalcOutcome(generate, made, build, stat, size) ==
    [generate |-> generate, made |-> made, build |-> build, stat |-> stat,
     size |-> size]

\* the errors the toolchain and the file system fail with
ErrorInputs == { "exit status 1" }

CalcOutcomes ==
    { CalcOutcome(e, made, "", "", Zero64) :
        e \in ErrorInputs, made \in BOOLEAN }
    \cup { CalcOutcome("", TRUE, e, "", Zero64) : e \in ErrorInputs }
    \cup { CalcOutcome("", TRUE, "", e, Zero64) : e \in ErrorInputs }
    \cup { CalcOutcome("", TRUE, "", "", size) : size \in SizeInputs }

\* calcBytes without its check of the error of buildBin
calcBytesUnchecked(o) ==
    IF o.generate # "" THEN [size |-> Zero64, err |-> o.generate]
    ELSE IF o.stat # "" THEN [size |-> Zero64, err |-> o.stat]
    ELSE [size |-> o.size, err |-> ""]

\* calcBytes: buildModuleDir, buildBin, binBytes, returning at the first error
calcBytes(o) ==
    IF o.generate # "" THEN [size |-> Zero64, err |-> o.generate]
    ELSE IF o.build # "" THEN [size |-> Zero64, err |-> o.build]
    ELSE IF o.stat # "" THEN [size |-> Zero64, err |-> o.stat]
    ELSE [size |-> o.size, err |-> ""]

\* the struct Result without Duration; the fields a literal leaves out are zero
Result(error, module, version, os, arch, withMod) ==
    [Error |-> error, Module |-> module, Version |-> version, GOOS |-> os,
     GOARCH |-> arch, Baseline |-> Zero64, WithMod |-> withMod, Cost |-> Zero64]

\* the go.mod files a with-module build may leave for module
ManifestInputs(module) ==
    { Unreadable,
      Parsed(<< Req(Other, "v2", TRUE) >>),
      Parsed(<< Req(module, "v1", FALSE), Req(Other, "v2", TRUE) >>) }

NoFile == Parsed(<< >>)

\* analyzeModule: the Result and the error it returns
analyzeModule(module, os, arch, o, file) ==
    LET c == calcBytes(o) IN
    IF c.err # ""
    THEN [result |-> Result(c.err, module, "", os, arch, Zero64), err |-> c.err]
    ELSE LET v == versionFromModFile(file, module) IN
         IF v.Err # ""
         THEN [result |-> Result(v.Err, module, "", os, arch, Zero64),
               err |-> v.Err]
         ELSE [result |-> Result("", v.Path, v.Version, os, arch, c.size),
               err |-> ""]

\* the deferred os.RemoveAll of analyzeModule: the directories left under
\* workDir; a failed removal leaves the directory
afterRemoveAll(existing, name, rmOk) ==
    IF rmOk THEN existing \ {name} ELSE existing

-----------------------------------------------------------------------------
(* Analyze *)

\* a Go map read: the zero value for a key the map does not hold
MapGet(m, k) == IF k \in DOMAIN m THEN m[k] ELSE Zero64

\* a map write that keeps the value of a key the map already holds
MapPutIfAbsent(m, k, v) ==
    [x \in DOMAIN m \cup {k} |-> IF x \in DOMAIN m THEN m[x] ELSE v]

\* a Go map write
MapPut(m, k, v) == [x \in DOMAIN m \cup {k} |-> IF x = k THEN v ELSE m[x]]

EmptyMap == [x \in {} |-> Zero64]

\* measured before any baseline build: zero, which no build of SizeInputs has
NotMeasured ==
    [p \in (GoosInputs \cup {HostGOOS}) \X (GoarchInputs \cup {HostGOARCH})
        |-> Zero64]

NoReturn == [results |-> << >>, err |-> ""]

\* the loops over a.goos and a.goarch that calculate the base sizes: the
\* position after (g, a), done when the loops end
NextPlatform(g, a) ==
    IF a < Len(goarch) THEN [g |-> g, a |-> a + 1, done |-> FALSE]
    ELSE IF g < Len(goos) THEN [g |-> g + 1, a |-> 1, done |-> FALSE]
    ELSE [g |-> 1, a |-> 1, done |-> TRUE]

\* the three loops with the modules innermost replaced by loops with the
\* GOOS innermost
NextTripleGoosInner(g, a, m) ==
    IF g < Len(goos) THEN [g |-> g + 1, a |-> a, m |-> m, done |-> FALSE]
    ELSE IF a < Len(goarch) THEN [g |-> 1, a |-> a + 1, m |-> m, done |-> FALSE]
    ELSE IF m < Len(modules) THEN [g |-> 1, a |-> 1, m |-> m + 1, done |-> FALSE]
    ELSE [g |-> 1, a |-> 1, m |-> 1, done |-> TRUE]

\* the loops over a.goos, a.goarch and a.modules that analyze the modules:
\* the position after (g, a, m), done when the loops end
NextTriple(g, a, m) ==
    IF m < Len(modules) THEN [g |-> g, a |-> a, m |-> m + 1, done |-> FALSE]
    ELSE IF a < Len(goarch) THEN [g |-> g, a |-> a + 1, m |-> 1, done |-> FALSE]
    ELSE IF g < Len(goos) THEN [g |-> g + 1, a |-> 1, m |-> 1, done |-> FALSE]
    ELSE [g |-> 1, a |-> 1, m |-> 1, done |-> TRUE]

\* the body of the innermost loop without its continue: the base size and
\* the cost go into a failed Result too
collectAlways(r, baseSize) ==
    [r.result EXCEPT !.Baseline = baseSize,
                     !.Cost = Sub64(r.result.WithMod, baseSize)]

\* the body of the innermost loop after analyzeModule returned r: the Result
\* that is appended to results
collect(r, baseSize) ==
    IF r.err # "" THEN r.result
    ELSE [r.result EXCEPT !.Baseline = baseSize,
                          !.Cost = Sub64(r.result.WithMod, baseSize)]

\* the error of the first step of calcBytes that the environment lets fail
StepError(o) ==
    IF o.generate # "" THEN o.generate
    ELSE IF o.build # "" THEN o.build
    ELSE o.stat

\* the call of Analyze on the Analyzer that NewAnalyzer returned
AnalyzeCall ==
    /\ pc = "ready"
    /\ pc' = "base"
    /\ baseSizes' = EmptyMap
    /\ gi' = 1 /\ ai' = 1 /\ mi' = 1
    /\ UNCHANGED <<cfgVars, analyzer, newErr, results, ret, dirs, rmFailed,
                   builds, measured, obs, resVars>>

\* one iteration of the loops that calculate the base sizes
AnalyzeBaseline ==
    /\ pc = "base"
    /\ \E o \in CalcOutcomes :
         LET os == goos[gi]
             arch == goarch[ai]
             c == calcBytes(o)
             next == NextPlatform(gi, ai) IN
         /\ dirs' = IF o.made THEN dirs \cup {BaseDir} ELSE dirs
         /\ builds' = Append(builds, [kind |-> "base", key |-> Key(os, arch),
                                      err |-> StepError(o)])
         /\ IF c.err # ""
            THEN /\ pc' = "done"
                 /\ ret' = [results |-> << >>, err |-> c.err]
                 /\ UNCHANGED <<baseSizes, measured, gi, ai, mi, results>>
            ELSE /\ baseSizes' = MapPut(baseSizes, Key(os, arch), c.size)
                 /\ measured' = [measured EXCEPT ![<<os, arch>>] = o.size]
                 /\ gi' = next.g /\ ai' = next.a /\ mi' = 1
                 /\ results' = << >>
                 /\ IF ~next.done
                    THEN UNCHANGED <<pc, ret>>
                    ELSE IF Len(modules) = 0
                    THEN pc' = "done" /\ ret' = NoReturn
                    ELSE pc' = "mods" /\ UNCHANGED ret
    /\ UNCHANGED <<cfgVars, analyzer, newErr, rmFailed, obs, resVars>>

\* one iteration of the loops that analyze the modules
AnalyzeModule ==
    /\ pc = "mods"
    /\ LET os == goos[gi]
           arch == goarch[ai]
           module == modules[mi]
           name == Base(module)
           next == NextTriple(gi, ai, mi) IN
       \E o \in CalcOutcomes :
       \E file \in IF StepError(o) = "" THEN ManifestInputs(module)
                   ELSE {NoFile} :
       \E rmOk \in IF o.made \/ name \in dirs THEN BOOLEAN ELSE {TRUE} :
         LET r == analyzeModule(module, os, arch, o, file) IN
         /\ results' = Append(results,
                              collect(r, MapGet(baseSizes, Key(os, arch))))
         /\ dirs' = afterRemoveAll(IF o.made THEN dirs \cup {name} ELSE dirs,
                                   name, rmOk)
         /\ rmFailed' = (rmFailed \/ ~rmOk)
         /\ builds' = Append(builds, [kind |-> "mod", key |-> Key(os, arch),
                                      err |-> StepError(o)])
         /\ obs' = Append(obs, [module |-> module, os |-> os, arch |-> arch,
                                err |-> StepError(o), size |-> o.size,
                                file |-> file])
         /\ gi' = next.g /\ ai' = next.a /\ mi' = next.m
         /\ IF next.done
            THEN pc' = "done" /\ ret' = [results |-> results', err |-> ""]
            ELSE UNCHANGED <<pc, ret>>
    /\ UNCHANGED <<cfgVars, analyzer, newErr, baseSizes, measured, resVars>>

-----------------------------------------------------------------------------
(* The program: NewAnalyzer, then Analyze *)

NoResolve == [file |-> NoFile, module |-> EmptyPath]
NoResolved == [Path |-> EmptyPath, Version |-> "", Err |-> ""]

Init ==
    /\ pc = "new"
    /\ workDir = ""
    /\ modules = << >>
    /\ goos = << >>
    /\ goarch = << >>
    /\ analyzer = "none"
    /\ newErr = ""
    /\ gi = 1 /\ ai = 1 /\ mi = 1
    /\ baseSizes = EmptyMap
    /\ results = << >>
    /\ ret = NoReturn
    /\ dirs = {}
    /\ rmFailed = FALSE
    /\ builds = << >>
    /\ measured = NotMeasured
    /\ obs = << >>
    /\ resolveIn = NoResolve
    /\ resolveOut = NoResolved

Next ==
    \/ \E w \in WorkDirInputs : WithWorkDir(w)
    \/ \E m \in ModuleInputs \cup {EmptyPath} : WithModule(m)
    \/ \E ms \in SeqsUpTo(ModuleInputs \cup {EmptyPath}, MaxList) :
          WithModules(ms)
    \/ \E file \in GoModInputs : WithModulesFromGoMod(file)
    \/ \E os \in GoosInputs \cup {""} : WithGOOS(os)
    \/ \E gooses \in SeqsUpTo(GoosInputs \cup {""}, MaxList) : WithGOOSes(gooses)
    \/ \E arch \in GoarchInputs \cup {""} : WithGOARCH(arch)
    \/ \E goarches \in SeqsUpTo(GoarchInputs \cup {""}, MaxList) :
          WithGOARCHes(goarches)
    \/ NewAnalyzerReturn
    \/ AnalyzeCall
    \/ AnalyzeBaseline
    \/ AnalyzeModule

Spec == Init /\ [][Next]_vars

-----------------------------------------------------------------------------
(* versionFromModFile on its own, over the manifests of a bounded size *)

ReqInputs ==
    { Req(path, version, indirect) :
        path \in {LibA, Other}, version \in {"v1", "v2"}, indirect \in BOOLEAN }

FileInputs ==
    { Unreadable, Unparseable }
        \cup { Parsed(reqs) : reqs \in SeqsUpTo(ReqInputs, MaxReqs) }

InitResolve ==
    /\ pc = "resolve"
    /\ workDir = DefaultWorkDir
    /\ modules = << LibA >>
    /\ goos = << HostGOOS >>
    /\ goarch = << HostGOARCH >>
    /\ analyzer = "ok"
    /\ newErr = ""
    /\ gi = 1 /\ ai = 1 /\ mi = 1
    /\ baseSizes = EmptyMap
    /\ results = << >>
    /\ ret = NoReturn
    /\ dirs = {}
    /\ rmFailed = FALSE
    /\ builds = << >>
    /\ measured = NotMeasured
    /\ obs = << >>
    /\ resolveIn \in [file : FileInputs, module : {LibA, LibB}]
    /\ resolveOut = NoResolved

Resolve ==
    /\ pc = "resolve"
    /\ pc' = "resolved"
    /\ resolveOut' = versionFromModFile(resolveIn.file, resolveIn.module)
    /\ UNCHANGED <<cfgVars, analyzer, newErr, runVars, resolveIn>>

NextResolve == Resolve

SpecResolve == InitResolve /\ [][NextResolve]_vars

-----------------------------------------------------------------------------
(* Properties *)

\* the carry that the addition a + b brings into limb i
RECURSIVE CarryInto(_, _, _)
CarryInto(a, b, i) ==
    IF i = 4 THEN 0
    ELSE IF a[i + 1] + b[i + 1] + CarryInto(a, b, i + 1) >= LimbBase THEN 1 ELSE 0

\* a + b modulo 2^64, and the carry out of the most significant limb
Add64(a, b) == [i \in Limbs |-> (a[i] + b[i] + CarryInto(a, b, i)) % LimbBase]
CarryOut(a, b) == IF a[1] + b[1] + CarryInto(a, b, 1) >= LimbBase THEN 1 ELSE 0

Min(S) == CHOOSE x \in S : \A y \in S : x <= y

\* the i-th triple of the enumeration with the GOOS as the outer loop, the
\* GOARCH as the middle loop and the module as the inner loop
TripleAt(i) ==
    LET M == Len(modules)
        A == Len(goarch) IN
    [os |-> goos[((i - 1) \div (M * A)) + 1],
     arch |-> goarch[(((i - 1) \div M) % A) + 1],
     module |-> modules[((i - 1) % M) + 1]]

AllTriples == Len(goos) * Len(goarch) * Len(modules)

\* the environment let the with-module measurement of the i-th triple fail
Failed(i) == obs[i].err # "" \/ obs[i].file.status # "ok"

\* C1: Analyze returns either an error and no Results, or one Result per
\* triple, len(goos) * len(goarch) * len(modules) of them, the i-th for the
\* i-th triple with the GOOS outermost and the module innermost.
C1_ResultsCoverTheMatrix ==
    pc = "done" =>
        \/ ret.err # "" /\ ret.results = << >>
        \/ /\ ret.err = ""
           /\ Len(ret.results) = AllTriples
           /\ Len(obs) = AllTriples
           /\ \A i \in 1..Len(ret.results) :
                /\ ret.results[i].GOOS = TripleAt(i).os
                /\ ret.results[i].GOARCH = TripleAt(i).arch
                /\ obs[i].module = TripleAt(i).module

C1_Witness ==
    /\ pc = "done"
    /\ ret.err = ""
    /\ Len(goos) = 2 /\ Len(modules) = 2 /\ Len(ret.results) = 4
    /\ goos[1] # goos[2]
    /\ modules[1] # modules[2]

\* C2: in every Result without Error, Cost is WithMod - Baseline modulo 2^64:
\* Cost + Baseline is WithMod modulo 2^64, and where WithMod < Baseline the
\* Cost is not zero and Cost + Baseline is WithMod + 2^64.
C2_CostIsWrappingDifference ==
    \A i \in 1..Len(results) :
        results[i].Error = "" =>
            /\ Add64(results[i].Cost, results[i].Baseline) = results[i].WithMod
            /\ Less64(results[i].WithMod, results[i].Baseline) =>
                 /\ results[i].Cost # Zero64
                 /\ CarryOut(results[i].Cost, results[i].Baseline) = 1
            /\ ~Less64(results[i].WithMod, results[i].Baseline) =>
                 CarryOut(results[i].Cost, results[i].Baseline) = 0

C2_Witness ==
    /\ pc = "done"
    /\ \E i \in 1..Len(ret.results) :
         /\ ret.results[i].Error = ""
         /\ ret.results[i].WithMod = <<0, 0, 0, 2>>
         /\ ret.results[i].Baseline = <<0, 0, 1, 0>>
         /\ ret.results[i].Cost = <<65535, 65535, 65535, 2>>

\* C3: every Result without Error carries the size that the baseline build of
\* its (GOOS, GOARCH) was found to have in this call, so that two such Results
\* of the same (GOOS, GOARCH) carry the same Baseline.
C3_BaselineReuse ==
    /\ \A i \in 1..Len(results) :
         results[i].Error = "" =>
            results[i].Baseline = measured[<<results[i].GOOS, results[i].GOARCH>>]
    /\ \A i, j \in 1..Len(results) :
         /\ results[i].Error = "" /\ results[j].Error = ""
         /\ results[i].GOOS = results[j].GOOS
         /\ results[i].GOARCH = results[j].GOARCH
         => results[i].Baseline = results[j].Baseline

C3_Witness ==
    /\ pc = "done"
    /\ \E i, j, k \in 1..Len(ret.results) :
         /\ i # j
         /\ ret.results[i].Error = "" /\ ret.results[j].Error = ""
         /\ ret.results[k].Error = ""
         /\ ret.results[i].GOOS = ret.results[j].GOOS
         /\ ret.results[i].Module # ret.results[j].Module
         /\ ret.results[k].GOOS # ret.results[i].GOOS
         /\ ret.results[k].Baseline # ret.results[i].Baseline

\* C4: once the baselines are there, a with-module measurement that fails
\* gives a Result with an Error and zero Baseline, WithMod and Cost, and no
\* error of Analyze; every measurement that succeeds gives a Result without
\* Error, whatever failed before or after it, and every triple is measured.
C4_FailureIsolation ==
    /\ Len(obs) = Len(results)
    /\ \A i \in 1..Len(results) :
         /\ Failed(i) =>
              /\ results[i].Error # ""
              /\ results[i].Baseline = Zero64
              /\ results[i].WithMod = Zero64
              /\ results[i].Cost = Zero64
         /\ ~Failed(i) => results[i].Error = ""
    /\ (pc = "done" /\ obs # << >>) =>
         /\ ret.err = ""
         /\ ret.results = results
         /\ Len(obs) = AllTriples

C4_Witness ==
    /\ pc = "done"
    /\ \E i, j, k \in 1..Len(ret.results) :
         /\ i < j /\ j < k
         /\ ~Failed(i) /\ Failed(j) /\ ~Failed(k)
         /\ ret.results[i].Error = "" /\ ret.results[j].Error # ""
         /\ ret.results[k].Error = ""

BaselineFailed ==
    \E i \in 1..Len(builds) : builds[i].kind = "base" /\ builds[i].err # ""

\* C5: a baseline build that fails ends Analyze: it returns the error of that
\* build and no Results, no with-module build is made, and Analyze never
\* returns an error together with Results.
C5_BaselineFailureAborts ==
    /\ BaselineFailed =>
         /\ pc = "done"
         /\ builds[Len(builds)].kind = "base"
         /\ ret.err = builds[Len(builds)].err
         /\ ret.results = << >>
         /\ results = << >>
         /\ obs = << >>
         /\ \A i \in 1..Len(builds) : builds[i].kind # "mod"
    /\ (pc = "done" /\ ret.err # "") => ret.results = << >>

C5_Witness ==
    /\ pc = "done"
    /\ ret.err # ""
    /\ ret.results = << >>
    /\ Len(builds) >= 2
    /\ BaselineFailed

ConfigError == "must provide at least one module to analyze"
OptionErrors == { "unable to read go.mod", "unable to parse go.mod" }

\* C6: NewAnalyzer with options that leave a.modules empty returns nil and an
\* error, the configuration error unless an option failed before; NewAnalyzer
\* creates no directory and runs no build.
C6_EmptyModulesRejected ==
    /\ pc \in {"new", "newfailed", "ready"} => dirs = {} /\ builds = << >>
    /\ (pc # "new" /\ Len(modules) = 0) =>
         /\ pc = "newfailed"
         /\ analyzer = "nil"
         /\ newErr # ""
         /\ newErr \notin OptionErrors => newErr = ConfigError
    /\ analyzer = "ok" => Len(modules) > 0

C6_Witness ==
    /\ pc = "newfailed"
    /\ analyzer = "nil"
    /\ newErr = ConfigError
    /\ Len(goos) > 0
    /\ workDir # ""

\* C7: versionFromModFile returns the first requirement whose path is the
\* module asked for if there is one, whatever is declared before it, and the
\* first direct requirement only if no path matches.
C7_PathMatchPreferred ==
    (pc = "resolved" /\ resolveIn.file.status = "ok") =>
        LET reqs == resolveIn.file.Require
            byPath == { k \in 1..Len(reqs) : reqs[k].Path = resolveIn.module }
            direct == { k \in 1..Len(reqs) : ~reqs[k].Indirect } IN
        IF byPath # {}
        THEN /\ resolveOut.Err = ""
             /\ resolveOut.Path = reqs[Min(byPath)].Path
             /\ resolveOut.Version = reqs[Min(byPath)].Version
        ELSE direct # {} =>
             /\ resolveOut.Err = ""
             /\ resolveOut.Path = reqs[Min(direct)].Path
             /\ resolveOut.Version = reqs[Min(direct)].Version

\* the manifest of the i-th triple was read and parsed, and holds neither a
\* requirement of the module's path nor a direct requirement
NoMatch(i) ==
    /\ obs[i].err = ""
    /\ obs[i].file.status = "ok"
    /\ \A k \in 1..Len(obs[i].file.Require) :
         /\ obs[i].file.Require[k].Path # obs[i].module
         /\ obs[i].file.Require[k].Indirect

\* C8: a manifest without a requirement of the module's path and without a
\* direct requirement gives a Result without Error, with the module asked
\* for, the version "<unknown>", and the sizes and the cost of a success.
C8_UnknownVersionIsSuccess ==
    \A i \in 1..Len(results) :
        (i <= Len(obs) /\ NoMatch(i)) =>
            /\ results[i].Error = ""
            /\ results[i].Module = obs[i].module
            /\ results[i].Version = UnknownVersion
            /\ results[i].WithMod = obs[i].size
            /\ results[i].Baseline = measured[<<obs[i].os, obs[i].arch>>]
            /\ Add64(results[i].Cost, results[i].Baseline) = results[i].WithMod

C8_Witness ==
    /\ pc = "done"
    /\ \E i \in 1..Len(ret.results) :
         /\ NoMatch(i)
         /\ Len(obs[i].file.Require) > 0
         /\ ret.results[i].Version = UnknownVersion
         /\ ret.results[i].Error = ""

\* C9: when Analyze has returned and no removal failed, no directory that
\* the call created is left under the work directory.
C9_NoDirectoryRemains ==
    (pc = "done" /\ ~rmFailed) => dirs = {}

\* C10: the baseline of each (GOOS, GOARCH) is built once, every baseline
\* build comes before the first with-module build, and the Results carry the
\* base sizes as the cache still holds them.
C10_BaselineOncePerPlatform ==
    /\ \A i, j \in 1..Len(builds) :
         (i # j /\ builds[i].kind = "base" /\ builds[j].kind = "base")
            => builds[i].key # builds[j].key
    /\ \A i, j \in 1..Len(builds) :
         (i < j /\ builds[i].kind = "mod") => builds[j].kind = "mod"
    /\ \A i \in 1..Len(results) :
         results[i].Error = "" =>
            results[i].Baseline
                = MapGet(baseSizes, Key(results[i].GOOS, results[i].GOARCH))

=============================================================================
